---- MODULE Spec2Model ----
(***************************************************************************)
(* teleport-collectd: a collectd plugin that routes every value of a       *)
(* collectd ValueList to a rillrate LogTracer kept in a path-indexed       *)
(* Pathfinder behind an RwLock (src/src/lib.rs).                           *)
(*                                                                         *)
(* Host threads call write_values concurrently; a multi-valued list is     *)
(* fanned out over rayon workers with par_iter().find_map_last(..).  Every *)
(* worker runs write_value, whose steps (shared lock, find, exclusive      *)
(* lock, create) are separate actions here so that every interleaving the  *)
(* RwLock allows is explored.                                              *)
(***************************************************************************)
EXTENDS Integers, Sequences, FiniteSets, TLC

\* ------------------------------------------------------------ bounds
NumThreads == 2     \* host threads calling write_values concurrently
MaxCalls == 2       \* write_values calls made by the host in one run

Threads == 1..NumThreads

\* ------------------------------------------------------------ options
\* Option<T>: None is the empty sequence, Some(x) the one-element sequence.
None == <<>>
Some(x) == <<x>>

\* ------------------------------------------------------------ inputs
\* ValueList<'_> of collectd_plugin, reduced to the fields write_values reads.
\* values holds the names of the reports, in submission order.
MkList(h, p, pi, ty, ti, vs) ==
    [host |-> h, plugin |-> p, plugin_instance |-> pi,
     type_ |-> ty, type_instance |-> ti, values |-> vs]

\* The value lists the host threads deliver.
Lists ==
    { MkList("h1", "cpu", None, "cpu", None, <<"value">>),
      MkList("h1", "cpu", None, "load", None, <<"rx", "tx">>) }

\* ------------------------------------------------------------ write_values: the path
\* faulty variant: the dedup test made against the host instead of the plugin
skip_type_host(list) == list.type_ = list.host

\* let skip_type = typ == plugin;
skip_type(list) == list.type_ = list.plugin

\* entries.push(..) in the order of lines 125-138
basic_path(list) ==
    LET e1 == <<list.host>>
        e2 == Append(e1, list.plugin)
        e3 == IF list.plugin_instance # None THEN Append(e2, list.plugin_instance[1]) ELSE e2
        e4 == IF ~skip_type(list) THEN Append(e3, list.type_) ELSE e3
        e5 == IF list.type_instance # None THEN Append(e4, list.type_instance[1]) ELSE e4
    IN  e5

\* Path::concat: the path with one more entry
concat(path, name) == Append(path, name)

\* ------------------------------------------------------------ state
VARIABLES
    tracers,    \* self.tracers: the Pathfinder, dug path -> attached LogTracer or NoLink
    created,    \* every LogTracer constructed by write_value, in order: its path
    active,     \* the active flag of each constructed LogTracer
    poisoned,   \* the RwLock around the Pathfinder is poisoned
    readers,    \* the write_value calls holding the shared lock
    writer,     \* the write_value call holding the exclusive lock (an Option)
    pc,         \* per host thread: "idle" or "run" (inside write_values)
    list,       \* per host thread: the ValueList of the current call
    calls,      \* write_values calls made so far, over all host threads
    tasks,      \* per host thread: one write_value call per value of the list
    result,     \* per host thread: what the last write_values returned
    hist,       \* per host thread: the call before the current one (an Option)
    intrCur,    \* per host thread: another thread attached a tracer since this call began
    intrPrev,   \* per host thread: the same, during the call before
    loggers,    \* self.loggers: LogLevel -> the LogTracer of the level
    lastLog,    \* what the last Plugin::log call did (an Option)
    rillrate,   \* RILLRATE: the connection to the backend (an Option)
    life,       \* what the host did last with the plugin's lifecycle hooks
    pbIn,       \* path construction alone: the metadata
    pbOut       \* path construction alone: the path built (an Option)

regVars == <<tracers, created, active, poisoned, readers, writer>>
thrVars == <<pc, list, calls, tasks, result, hist, intrCur, intrPrev>>
logVars == <<loggers, lastLog>>
lifeVars == <<rillrate, life>>
pathVars == <<pbIn, pbOut>>
vars == <<regVars, thrVars, logVars, lifeVars, pathVars>>

\* ------------------------------------------------------------ Pathfinder<LogTracer>
\* Record::link is None
NoLink == 0

\* Pathfinder::new(): the root record alone, without a link
Pathfinder_new == (<<>> :> NoLink)

Prefixes(path) == { SubSeq(path, 1, k) : k \in 0..Len(path) }

\* faulty variant: the lookup never finds a record
find_nothing(tr, path) == NoLink

\* tracers.find(&path).and_then(Record::get_link): the link of the record at
\* exactly this path; nothing when a record is missing on the way or has no link
find_link(tr, path) == IF path \in DOMAIN tr THEN tr[path] ELSE NoLink

\* faulty variant: the records on the way are made anew, losing their links
dig_reset(tr, path) ==
    [q \in (DOMAIN tr) \cup Prefixes(path) |-> IF q \in Prefixes(path) THEN NoLink ELSE tr[q]]

\* Pathfinder::dig: the records of the path and of its prefixes exist afterwards
dig(tr, path) ==
    [q \in (DOMAIN tr) \cup Prefixes(path) |-> IF q \in DOMAIN tr THEN tr[q] ELSE NoLink]

\* Record::set_link on the record dig returns: the link is replaced
set_link(tr, path, e) == [tr EXCEPT ![path] = e]

\* the tracers that are attached to a record
Attached == { tracers[q] : q \in DOMAIN tracers } \ {NoLink}

\* ------------------------------------------------------------ RwLock
\* faulty variant: a poisoned lock is handed out like a healthy one
lock_ignores_poison(p) == "ok"

\* RwLock::read / RwLock::write followed by map_err(..)?: a poisoned lock is an Err
lock_result(p) == IF p THEN "err" ELSE "ok"

\* ------------------------------------------------------------ LogTracer
\* LogTracer::new(path, active): the active flag the new tracer starts with
LogTracer_new(path, isActive) == isActive

\* faulty variant: the value is logged whatever the flag says
log_always(isActive) == TRUE

\* if tracer.is_active() { tracer.log(..) }
should_log(isActive) == isActive

\* LogLevel::iter(): the severity levels of collectd
LogLevel == {"Error", "Warning", "Notice", "Info", "Debug"}

\* level.as_ref(): the name of the level
as_ref(level) == level

\* faulty variant: the loop over the levels stops one level short
new_loggers_short ==
    [level \in LogLevel \ {"Debug"} |->
        LET path == <<"log", as_ref(level)>>
        IN  [path |-> path, active |-> LogTracer_new(path, FALSE)]]

\* TeleportColelctd::new, lines 27-32: one tracer per level, made with active = false
new_loggers ==
    [level \in LogLevel |->
        LET path == <<"log", as_ref(level)>>
        IN  [path |-> path, active |-> LogTracer_new(path, FALSE)]]

\* ------------------------------------------------------------ tasks
Task(p, r, e, m, a, l) == [pc |-> p, res |-> r, ep |-> e, made |-> m, act |-> a, logged |-> l]
NewTask == Task("pending", "none", NoLink, FALSE, FALSE, FALSE)

Terminal(task) == task.pc \in {"done", "skipped"}

\* faulty variant: the name of the value is not appended
task_path_basic(l, i) == basic_path(l)

\* the path write_values hands to write_value for value i (lines 141-148)
task_path(l, i) ==
    IF Len(l.values) = 1 THEN basic_path(l) ELSE concat(basic_path(l), l.values[i])

SetTask(t, i, task) == tasks' = [tasks EXCEPT ![t][i] = task]

Running(t, i) == pc[t] = "run" /\ i \in DOMAIN tasks[t]

\* ------------------------------------------------------------ Init
InitPlugin ==
    /\ tracers = Pathfinder_new
    /\ created = <<>>
    /\ active = <<>>
    /\ poisoned = FALSE
    /\ readers = {}
    /\ writer = None
    /\ pc = [t \in Threads |-> "idle"]
    /\ list = [t \in Threads |-> None]
    /\ calls = 0
    /\ tasks = [t \in Threads |-> <<>>]
    /\ result = [t \in Threads |-> None]
    /\ hist = [t \in Threads |-> None]
    /\ intrCur = [t \in Threads |-> FALSE]
    /\ intrPrev = [t \in Threads |-> FALSE]
    /\ loggers = new_loggers
    /\ lastLog = None
    /\ rillrate = None
    /\ life = [up |-> FALSE, last |-> "none"]

Init ==
    /\ InitPlugin
    /\ pbIn = None
    /\ pbOut = None

\* ------------------------------------------------------------ write_value
\* line 78: the shared lock; a poisoned lock makes write_value return the error
ReadLock(t, i) ==
    /\ Running(t, i)
    /\ tasks[t][i].pc = "pending"
    /\ writer = None
    /\ IF lock_result(poisoned) = "err"
       THEN /\ SetTask(t, i, [tasks[t][i] EXCEPT !.pc = "done", !.res = "err"])
            /\ UNCHANGED readers
       ELSE /\ SetTask(t, i, [tasks[t][i] EXCEPT !.pc = "find"])
            /\ readers' = readers \cup {<<t, i>>}
    /\ UNCHANGED <<tracers, created, active, poisoned, writer>>
    /\ UNCHANGED <<pc, list, calls, result, hist, intrCur, intrPrev>>
    /\ UNCHANGED <<logVars, lifeVars, pathVars>>

\* faulty variant: on a miss the shared guard is kept while the exclusive lock
\* is requested
ReadFind_keeps_guard(t, i) ==
    /\ Running(t, i)
    /\ tasks[t][i].pc = "find"
    /\ LET e == find_link(tracers, task_path(list[t][1], i))
       IN  IF e # NoLink
           THEN /\ SetTask(t, i, Task("done", "ok", e, FALSE, active[e], should_log(active[e])))
                /\ readers' = readers \ {<<t, i>>}
           ELSE /\ SetTask(t, i, [tasks[t][i] EXCEPT !.pc = "wantwrite"])
                /\ readers' = readers
    /\ UNCHANGED <<tracers, created, active, poisoned, writer>>
    /\ UNCHANGED <<pc, list, calls, result, hist, intrCur, intrPrev>>
    /\ UNCHANGED <<logVars, lifeVars, pathVars>>

\* lines 79-88: find under the shared lock; log if active and return, else fall through
ReadFind(t, i) ==
    /\ Running(t, i)
    /\ tasks[t][i].pc = "find"
    /\ LET e == find_link(tracers, task_path(list[t][1], i))
       IN  IF e # NoLink
           THEN SetTask(t, i, Task("done", "ok", e, FALSE, active[e], should_log(active[e])))
           ELSE SetTask(t, i, [tasks[t][i] EXCEPT !.pc = "wantwrite"])
    /\ readers' = readers \ {<<t, i>>}
    /\ UNCHANGED <<tracers, created, active, poisoned, writer>>
    /\ UNCHANGED <<pc, list, calls, result, hist, intrCur, intrPrev>>
    /\ UNCHANGED <<logVars, lifeVars, pathVars>>

\* lines 92-95: the exclusive lock, taken after the shared one was released
WriteLock(t, i) ==
    /\ Running(t, i)
    /\ tasks[t][i].pc = "wantwrite"
    /\ writer = None
    /\ readers = {}
    /\ IF lock_result(poisoned) = "err"
       THEN /\ SetTask(t, i, [tasks[t][i] EXCEPT !.pc = "done", !.res = "err"])
            /\ UNCHANGED writer
       ELSE /\ SetTask(t, i, [tasks[t][i] EXCEPT !.pc = "create"])
            /\ writer' = Some(<<t, i>>)
    /\ UNCHANGED <<tracers, created, active, poisoned, readers>>
    /\ UNCHANGED <<pc, list, calls, result, hist, intrCur, intrPrev>>
    /\ UNCHANGED <<logVars, lifeVars, pathVars>>

\* lines 96-100: LogTracer::new(path.clone(), true); tracers.dig(path).set_link(tracer)
\* The link that set_link replaces is dropped: nobody observes it any more.
Create(t, i) ==
    /\ Running(t, i)
    /\ tasks[t][i].pc = "create"
    /\ LET path == task_path(list[t][1], i)
           e == Len(created) + 1
           old == IF path \in DOMAIN tracers THEN tracers[path] ELSE NoLink
       IN  /\ created' = Append(created, path)
           /\ active' = [k \in 1..e |-> IF k = e THEN LogTracer_new(path, TRUE)
                                        ELSE IF k = old THEN FALSE ELSE active[k]]
           /\ tracers' = set_link(dig(tracers, path), path, e)
           /\ SetTask(t, i, Task("done", "ok", e, TRUE, FALSE, FALSE))
    /\ writer' = None
    /\ intrCur' = [u \in Threads |-> IF u = t THEN intrCur[u] ELSE TRUE]
    /\ UNCHANGED <<poisoned, readers>>
    /\ UNCHANGED <<pc, list, calls, result, hist, intrPrev>>
    /\ UNCHANGED <<logVars, lifeVars, pathVars>>

\* A panic while the exclusive guard is alive (in LogTracer::new or in dig):
\* the guard is dropped while unwinding, which poisons the lock.
Panic(t, i) ==
    /\ Running(t, i)
    /\ tasks[t][i].pc = "create"
    /\ poisoned' = TRUE
    /\ writer' = None
    /\ SetTask(t, i, [tasks[t][i] EXCEPT !.pc = "done", !.res = "panic"])
    /\ UNCHANGED <<tracers, created, active, readers>>
    /\ UNCHANGED <<pc, list, calls, result, hist, intrCur, intrPrev>>
    /\ UNCHANGED <<logVars, lifeVars, pathVars>>

\* ------------------------------------------------------------ the backend
\* The backend attaches or detaches an observer of an attached tracer.
SetActive(e, b) ==
    /\ e \in Attached
    /\ active[e] # b
    /\ active' = [active EXCEPT ![e] = b]
    /\ UNCHANGED <<tracers, created, poisoned, readers, writer>>
    /\ UNCHANGED thrVars
    /\ UNCHANGED <<logVars, lifeVars, pathVars>>

\* ------------------------------------------------------------ write_values
\* faulty variant: the errors of the workers are dropped
find_map_none(ts) == 0

\* faulty variant: the error of the first failing value is the one kept
find_map_first(ts) ==
    LET failed == { i \in DOMAIN ts : ts[i].res = "err" }
    IN  IF failed = {} THEN 0 ELSE CHOOSE i \in failed : \A j \in failed : i <= j

\* par_iter().find_map_last(..): the error of the last value, in submission
\* order, whose write_value returned one; 0 stands for None
find_map_last(ts) ==
    LET failed == { i \in DOMAIN ts : ts[i].res = "err" }
    IN  IF failed = {} THEN 0 ELSE CHOOSE i \in failed : \A j \in failed : j <= i

\* lines 140-149: the error write_values ends up with
batch_err(ts) ==
    IF Len(ts) = 1
    THEN (IF ts[1].res = "err" THEN 1 ELSE 0)
    ELSE find_map_last(ts)

Panicked(ts) == \E i \in DOMAIN ts : ts[i].res = "panic"

\* lines 150-155, or the panic of a worker resumed in the caller
batch_result(ts) ==
    [res |-> IF Panicked(ts) THEN "panic" ELSE IF batch_err(ts) # 0 THEN "err" ELSE "ok",
     from |-> IF Panicked(ts) THEN 0 ELSE batch_err(ts)]

\* the call as the next call of the thread remembers it
Past(t) == [list |-> list[t][1], res |-> result[t][1].res,
            eps |-> [i \in DOMAIN tasks[t] |-> tasks[t][i].ep]]

\* the host calls write_values(list) on thread t
Call(t, l) ==
    /\ pc[t] = "idle"
    /\ calls < MaxCalls
    /\ pc' = [pc EXCEPT ![t] = "run"]
    /\ list' = [list EXCEPT ![t] = Some(l)]
    /\ calls' = calls + 1
    /\ tasks' = [tasks EXCEPT ![t] = [i \in 1..Len(l.values) |-> NewTask]]
    /\ hist' = [hist EXCEPT ![t] = IF result[t] = None THEN None ELSE Some(Past(t))]
    /\ intrPrev' = [intrPrev EXCEPT ![t] = intrCur[t]]
    /\ intrCur' = [intrCur EXCEPT ![t] = FALSE]
    /\ result' = [result EXCEPT ![t] = None]
    /\ UNCHANGED regVars
    /\ UNCHANGED <<logVars, lifeVars, pathVars>>

\* find_map_last stops processing the items before one that produced an error:
\* the worker of value i is never started
Skip(t, i) ==
    /\ Running(t, i)
    /\ Len(tasks[t]) # 1
    /\ tasks[t][i].pc = "pending"
    /\ \E j \in DOMAIN tasks[t] : j > i /\ tasks[t][j].res = "err"
    /\ SetTask(t, i, [tasks[t][i] EXCEPT !.pc = "skipped"])
    /\ UNCHANGED regVars
    /\ UNCHANGED <<pc, list, calls, result, hist, intrCur, intrPrev>>
    /\ UNCHANGED <<logVars, lifeVars, pathVars>>

\* a panic of a worker unwinds the sequential run it is part of: the values
\* that come after it in the same run are never started
Unwind(t, i) ==
    /\ Running(t, i)
    /\ Len(tasks[t]) # 1
    /\ tasks[t][i].pc = "pending"
    /\ \E j \in DOMAIN tasks[t] :
          /\ j < i
          /\ tasks[t][j].res = "panic"
          /\ \A k \in (j+1)..(i-1) : tasks[t][k].pc = "skipped"
    /\ SetTask(t, i, [tasks[t][i] EXCEPT !.pc = "skipped"])
    /\ UNCHANGED regVars
    /\ UNCHANGED <<pc, list, calls, result, hist, intrCur, intrPrev>>
    /\ UNCHANGED <<logVars, lifeVars, pathVars>>

\* write_values returns (or the panic of a worker is resumed in the caller)
Return(t) ==
    /\ pc[t] = "run"
    /\ \A i \in DOMAIN tasks[t] : Terminal(tasks[t][i])
    /\ pc' = [pc EXCEPT ![t] = "idle"]
    /\ result' = [result EXCEPT ![t] = Some(batch_result(tasks[t]))]
    /\ UNCHANGED regVars
    /\ UNCHANGED <<list, calls, tasks, hist, intrCur, intrPrev>>
    /\ UNCHANGED <<logVars, lifeVars, pathVars>>

\* ------------------------------------------------------------ Plugin::log
\* lines 109-117: the tracer of the level logs the message if it is active.
\* Nothing ever takes the exclusive lock of loggers, so the shared lock is
\* always granted and never poisoned.
Log(lvl) ==
    /\ lvl \in DOMAIN loggers
    /\ LET tracer == loggers[lvl]
       IN  lastLog' = Some([lvl |-> lvl, act |-> tracer.active,
                            logged |-> should_log(tracer.active), res |-> "ok"])
    /\ UNCHANGED loggers
    /\ UNCHANGED <<regVars, thrVars, lifeVars, pathVars>>

\* The backend attaches or detaches an observer of the tracer of a level.
SetLoggerActive(lvl, b) ==
    /\ loggers[lvl].active # b
    /\ loggers' = [loggers EXCEPT ![lvl].active = b]
    /\ UNCHANGED lastLog
    /\ UNCHANGED <<regVars, thrVars, lifeVars, pathVars>>

\* ------------------------------------------------------------ PluginManager
\* faulty variant: the connection is left in place
take_nothing(conn) == conn

\* Option::take: what is left behind in RILLRATE
take(conn) == None

\* lines 49-59: the logger is installed and RillRate::from_env connects; either
\* can fail, and then `?` returns before RILLRATE is touched.  life.up records
\* that the plugin is between a successful initialize and the next shutdown.
Initialize(ok) ==
    /\ IF ok
       THEN /\ rillrate' = Some("RillRate")
            /\ life' = [up |-> TRUE, last |-> "initialized"]
       ELSE /\ rillrate' = rillrate
            /\ life' = [life EXCEPT !.last = "failed"]
    /\ UNCHANGED <<regVars, thrVars, logVars, pathVars>>

\* lines 68-71: RILLRATE.lock()?.take()
Shutdown ==
    /\ rillrate' = take(rillrate)
    /\ life' = [up |-> FALSE, last |-> "shutdown"]
    /\ UNCHANGED <<regVars, thrVars, logVars, pathVars>>

\* ------------------------------------------------------------ specification
Next ==
    \/ \E t \in Threads, l \in Lists : Call(t, l)
    \/ \E t \in Threads : \E i \in DOMAIN tasks[t] : ReadLock(t, i)
    \/ \E t \in Threads : \E i \in DOMAIN tasks[t] : ReadFind(t, i)
    \/ \E t \in Threads : \E i \in DOMAIN tasks[t] : WriteLock(t, i)
    \/ \E t \in Threads : \E i \in DOMAIN tasks[t] : Create(t, i)
    \/ \E t \in Threads : \E i \in DOMAIN tasks[t] : Panic(t, i)
    \/ \E t \in Threads : \E i \in DOMAIN tasks[t] : Skip(t, i)
    \/ \E t \in Threads : \E i \in DOMAIN tasks[t] : Unwind(t, i)
    \/ \E t \in Threads : Return(t)

\* Host threads calling write_values concurrently.
Spec == Init /\ [][Next]_vars

\* The steps of the workers of a call of thread t, and its return.
ThreadStep(t) ==
    \/ \E i \in DOMAIN tasks[t] :
          \/ ReadLock(t, i)
          \/ ReadFind(t, i)
          \/ WriteLock(t, i)
          \/ Create(t, i)
          \/ Panic(t, i)
          \/ Skip(t, i)
          \/ Unwind(t, i)
    \/ Return(t)

\* The same, with every thread that can take a step eventually taking one:
\* the workers are native threads and a lock that is free is granted.
SpecFair == Spec /\ \A t \in Threads : WF_vars(ThreadStep(t))

\* One host thread, the host's logger and the backend switching tracers on and off.
HostThread == CHOOSE t \in Threads : \A u \in Threads : t <= u

NextHost ==
    \/ \E l \in Lists : Call(HostThread, l)
    \/ \E i \in DOMAIN tasks[HostThread] : ReadLock(HostThread, i)
    \/ \E i \in DOMAIN tasks[HostThread] : ReadFind(HostThread, i)
    \/ \E i \in DOMAIN tasks[HostThread] : WriteLock(HostThread, i)
    \/ \E i \in DOMAIN tasks[HostThread] : Create(HostThread, i)
    \/ \E i \in DOMAIN tasks[HostThread] : Panic(HostThread, i)
    \/ \E i \in DOMAIN tasks[HostThread] : Skip(HostThread, i)
    \/ \E i \in DOMAIN tasks[HostThread] : Unwind(HostThread, i)
    \/ Return(HostThread)
    \/ \E e \in Attached, b \in BOOLEAN : SetActive(e, b)
    \/ \E lvl \in LogLevel : Log(lvl)
    \/ \E lvl \in LogLevel, b \in BOOLEAN : SetLoggerActive(lvl, b)

SpecHost == Init /\ [][NextHost]_vars

\* One host thread, the host's logger and the lifecycle hooks, in any order.
NextLife ==
    \/ \E l \in Lists : Call(HostThread, l)
    \/ \E i \in DOMAIN tasks[HostThread] : ReadLock(HostThread, i)
    \/ \E i \in DOMAIN tasks[HostThread] : ReadFind(HostThread, i)
    \/ \E i \in DOMAIN tasks[HostThread] : WriteLock(HostThread, i)
    \/ \E i \in DOMAIN tasks[HostThread] : Create(HostThread, i)
    \/ \E i \in DOMAIN tasks[HostThread] : Panic(HostThread, i)
    \/ \E i \in DOMAIN tasks[HostThread] : Skip(HostThread, i)
    \/ \E i \in DOMAIN tasks[HostThread] : Unwind(HostThread, i)
    \/ Return(HostThread)
    \/ \E lvl \in LogLevel : Log(lvl)
    \/ \E ok \in BOOLEAN : Initialize(ok)
    \/ Shutdown

SpecLife == Init /\ [][NextLife]_vars

\* The path construction of write_values on its own, over a range of metadata.
Hosts == {"h1", "disk"}
Plugins == {"cpu", "disk"}
Instances == {None, Some("0"), Some("cpu")}
Types == {"cpu", "disk", "disk_octets"}
TypeInstances == {None, Some("sda")}
ValueNames == { <<"value">>, <<"read", "write">>, <<"user", "system", "idle">> }

PathInputs ==
    { MkList(h, p, pi, ty, ti, vs) :
        h \in Hosts, p \in Plugins, pi \in Instances, ty \in Types,
        ti \in TypeInstances, vs \in ValueNames }

InitPath ==
    /\ InitPlugin
    /\ pbIn \in { Some(l) : l \in PathInputs }
    /\ pbOut = None

\* lines 120-148 without the writes: the basic path and the path of every value
Build ==
    /\ pbIn # None
    /\ pbOut = None
    /\ LET l == pbIn[1]
       IN  pbOut' = Some([basic |-> basic_path(l),
                          paths |-> [i \in 1..Len(l.values) |-> task_path(l, i)]])
    /\ UNCHANGED pbIn
    /\ UNCHANGED <<regVars, thrVars, logVars, lifeVars>>

NextPath == Build

SpecPath == InitPath /\ [][NextPath]_vars

\* ------------------------------------------------------------ properties
\* the write_value call for value i of the current call of thread t returned Ok
Resolved(t, i) == tasks[t][i].pc = "done" /\ tasks[t][i].res = "ok"

\* no other thread attached a tracer since the call before the current one began
Undisturbed(t) == ~intrPrev[t] /\ ~intrCur[t]

\* C1: for every path, whatever the interleaving of the write_value calls for
\* it, exactly one LogTracer is ever constructed for the path, and all callers
\* that resolved the path hold that same tracer.
C1_SingleEndpointPerPath ==
    /\ \A j, k \in DOMAIN created : created[j] = created[k] => j = k
    /\ \A t, u \in Threads : \A i \in DOMAIN tasks[t], j \in DOMAIN tasks[u] :
          ( /\ Resolved(t, i)
            /\ Resolved(u, j)
            /\ task_path(list[t][1], i) = task_path(list[u][1], j) )
          => tasks[t][i].ep = tasks[u][j].ep

\* C2: set-once attachment: a record that has a link keeps exactly that link
\* in every step.
C2_SetOnce ==
    [][\A q \in DOMAIN tracers : tracers[q] # NoLink =>
            q \in DOMAIN tracers' /\ tracers'[q] = tracers[q]]_vars

\* C3: two write_value calls for the same path made one after the other by a
\* thread, with no other caller attaching a tracer meanwhile, resolve to the
\* same tracer, and the second call constructs none.
C3_IdempotentResolution ==
    \A t \in Threads :
        (hist[t] # None /\ Undisturbed(t)) =>
            \A i \in DOMAIN tasks[t], j \in DOMAIN hist[t][1].eps :
                ( /\ task_path(list[t][1], i) = task_path(hist[t][1].list, j)
                  /\ hist[t][1].eps[j] # NoLink
                  /\ Resolved(t, i) )
                => /\ tasks[t][i].ep = hist[t][1].eps[j]
                   /\ ~tasks[t][i].made

\* a second call for a path resolved to the tracer of the first call
C3_Witness ==
    \E t \in Threads :
        /\ hist[t] # None
        /\ Undisturbed(t)
        /\ Len(list[t][1].values) = 1
        /\ hist[t][1].list = list[t][1]
        /\ Resolved(t, 1)
        /\ tasks[t][1].ep # NoLink
        /\ tasks[t][1].ep = hist[t][1].eps[1]

\* C4: the basic path is host, plugin, plugin_instance iff present, type iff
\* it differs from plugin, type_instance iff present, in this order and verbatim.
C4_BasicPath ==
    pbOut # None =>
        LET l == pbIn[1]
        IN  pbOut[1].basic =
                <<l.host, l.plugin>> \o l.plugin_instance
                    \o (IF l.type_ = l.plugin THEN <<>> ELSE <<l.type_>>)
                    \o l.type_instance

\* the dedup rule applied to metadata with both instances present
C4_Witness ==
    /\ pbOut # None
    /\ pbIn[1].type_ = pbIn[1].plugin
    /\ pbIn[1].plugin_instance # None
    /\ pbIn[1].type_instance # None
    /\ Len(pbOut[1].basic) = 4

\* write_values came back to the host with Ok or Err (no worker panicked)
Returned(t) == result[t] # None /\ result[t][1].res # "panic"

\* the write_value calls write_values made for the current list of thread t
Invoked(t) == { i \in DOMAIN tasks[t] : tasks[t][i].pc = "done" }

\* C5: when write_values returns, it has made exactly one write_value call per
\* value of the list: one on the basic path for a single value, n for n values.
C5_FanOutCount ==
    \A t \in Threads :
        Returned(t) => Cardinality(Invoked(t)) = Len(list[t][1].values)

\* C6: a call of write_values that repeats the completed call before it
\* constructs no tracer and leaves the Pathfinder as it is, and, no other
\* caller attaching a tracer or poisoning the lock meanwhile, resolves every
\* value to the tracer the first call resolved it to.
Repeats(t) ==
    /\ pc[t] = "run"
    /\ hist[t] # None
    /\ hist[t][1].res = "ok"
    /\ hist[t][1].list = list[t][1]

C6_RepeatedBatch ==
    [][\A t \in Threads :
            (Repeats(t) /\ tasks'[t] # tasks[t]) =>
                /\ tracers' = tracers
                /\ created' = created
                /\ \A i \in DOMAIN tasks[t] :
                      (tasks'[t][i].pc = "done" /\ Undisturbed(t) /\ ~poisoned) =>
                          /\ tasks'[t][i].res = "ok"
                          /\ tasks'[t][i].ep = hist[t][1].eps[i]]_vars

\* a two-valued list was written twice and the second call found both tracers
C6_Witness ==
    \E t \in Threads :
        /\ Returned(t)
        /\ hist[t] # None
        /\ hist[t][1].res = "ok"
        /\ hist[t][1].list = list[t][1]
        /\ Len(tasks[t]) = 2
        /\ \A i \in DOMAIN tasks[t] :
              Resolved(t, i) /\ ~tasks[t][i].made /\ tasks[t][i].ep = hist[t][1].eps[i]

\* C7: when the write of a value fails, the write of every other value of the
\* list is still made before write_values returns.
C7_AllValuesAttempted ==
    \A t \in Threads :
        (Returned(t) /\ \E i \in DOMAIN tasks[t] : tasks[t][i].res = "err") =>
            \A j \in DOMAIN tasks[t] : tasks[t][j].pc # "skipped"

\* C8: write_values returns Err iff the write of some value returned Err, and
\* the error it returns is the error of one of the failed values.
C8_ErrorAggregation ==
    \A t \in Threads :
        Returned(t) =>
            LET failed == { i \in DOMAIN tasks[t] : tasks[t][i].res = "err" }
                r == result[t][1]
            IN  /\ r.res = "err" <=> failed # {}
                /\ r.res = "err" => r.from \in failed
                /\ r.res = "ok" => r.from = 0

\* both values of a list failed and write_values returned one of the errors
C8_Witness ==
    \E t \in Threads :
        /\ Returned(t)
        /\ Len(tasks[t]) = 2
        /\ \A i \in DOMAIN tasks[t] : tasks[t][i].res = "err"
        /\ result[t][1].res = "err"

C10_PoisonPropagates ==
    /\ [][\A t \in Threads : \A i \in DOMAIN tasks[t] :
            ( /\ poisoned
              /\ i \in DOMAIN tasks'[t]
              /\ tasks[t][i].pc \in {"pending", "wantwrite"}
              /\ tasks'[t][i].pc \notin {tasks[t][i].pc, "skipped"} )
            => /\ tasks'[t][i].pc = "done"
               /\ tasks'[t][i].res = "err"
               /\ ~tasks'[t][i].made
               /\ tasks'[t][i].ep = NoLink
               /\ tracers' = tracers
               /\ created' = created]_vars
    /\ [](\A t \in Threads :
            (Returned(t) /\ \E i \in DOMAIN tasks[t] : tasks[t][i].res = "err")
                => result[t][1].res = "err")

\* a call met the poisoned lock and write_values returned the error
C10_Witness ==
    \E t \in Threads :
        /\ poisoned
        /\ Returned(t)
        /\ result[t][1].res = "err"
        /\ \E i \in DOMAIN tasks[t] : tasks[t][i].res = "err" /\ tasks[t][i].ep = NoLink

\* C11: a write_value call constructs a tracer only while the connection to
\* the backend is present.
C11_CreationNeedsConnection ==
    [][created' # created => rillrate # None]_vars

\* a step of write_values, write_value or log, as opposed to a lifecycle hook
PluginStep == thrVars' # thrVars \/ regVars' # regVars \/ logVars' # logVars

\* C16: the connection is present exactly between a successful initialize and
\* the next shutdown; a failing initialize leaves it as it is, and no step of
\* write_values, write_value or log modifies it.
C16_ConnectionLifecycle ==
    /\ [](rillrate # None <=> life.up)
    /\ [][ /\ PluginStep => rillrate' = rillrate
           /\ (life' # life /\ life'.last = "failed") => rillrate' = rillrate
           /\ (life' # life /\ life'.last = "shutdown") => rillrate' = None ]_vars

\* the plugin was initialized, wrote a value, and has been shut down since
C16_Witness ==
    /\ life.last = "shutdown"
    /\ rillrate = None
    /\ created # <<>>
    /\ lastLog # None

\* C12: a tracer is not active when write_value constructs it, and the call
\* that constructs it logs nothing to it and returns Ok.
C12_FreshTracerInactive ==
    [][created' # created =>
            /\ ~active'[Len(created')]
            /\ \A t \in Threads : \A i \in DOMAIN tasks[t] :
                  (tasks'[t][i].made /\ ~tasks[t][i].made) =>
                      ~tasks'[t][i].logged /\ tasks'[t][i].res = "ok"]_vars

\* the record of the path holds a tracer
HasLink(q) == q \in DOMAIN tracers /\ tracers[q] # NoLink

\* C13: a write_value call that starts when the path already holds a tracer
\* takes the shared lock only: under it the call finds that tracer and returns
\* Ok; it never takes the exclusive lock, constructs nothing and leaves the
\* Pathfinder unchanged.  (On a poisoned lock the call returns the error.)
C13_ExistsView ==
    [][\A t \in Threads : \A i \in DOMAIN tasks[t] :
            ( /\ pc[t] = "run"
              /\ i \in DOMAIN tasks'[t]
              /\ tasks[t][i].pc \in {"pending", "find"}
              /\ HasLink(task_path(list[t][1], i))
              /\ tasks'[t][i] # tasks[t][i] )
            => /\ tasks[t][i].pc = "pending" =>
                    \/ tasks'[t][i].pc = "find"
                    \/ tasks'[t][i].pc = "skipped"
                    \/ poisoned /\ tasks'[t][i].pc = "done" /\ tasks'[t][i].res = "err"
               /\ tasks[t][i].pc = "find" =>
                    /\ tasks'[t][i].pc = "done"
                    /\ tasks'[t][i].res = "ok"
                    /\ tasks'[t][i].ep = tracers[task_path(list[t][1], i)]
               /\ ~tasks'[t][i].made
               /\ writer' = writer
               /\ tracers' = tracers
               /\ created' = created]_vars

\* a caller found, under the shared lock, the tracer another caller attached
C13_Witness ==
    \E t, u \in Threads : \E i \in DOMAIN tasks[t], j \in DOMAIN tasks[u] :
        /\ t # u
        /\ Resolved(t, i)
        /\ ~tasks[t][i].made
        /\ tasks[u][j].made
        /\ tasks[t][i].ep = tasks[u][j].ep
        /\ tasks[t][i].ep # NoLink

\* C13 as stated: every write_value call that starts when the path already
\* holds a tracer finds it under the shared lock and returns from the read
\* branch, whatever happened to the lock.
C13_AlwaysFinds ==
    [][\A t \in Threads : \A i \in DOMAIN tasks[t] :
            ( /\ pc[t] = "run"
              /\ i \in DOMAIN tasks'[t]
              /\ tasks[t][i].pc = "pending"
              /\ HasLink(task_path(list[t][1], i))
              /\ tasks'[t][i].pc = "done" )
            => tasks'[t][i].res = "ok"]_vars

\* C14: constructing a tracer for a path links it at the record of exactly
\* that path: the records dug on the way get no link, and every other record
\* (a prefix, an extension, an unrelated path) keeps the link it had or had not.
C14_ExactNode ==
    /\ [][created' # created =>
            LET p == created'[Len(created')]
            IN  /\ DOMAIN tracers \subseteq DOMAIN tracers'
                /\ tracers'[p] = Len(created')
                /\ \A q \in (DOMAIN tracers') \ {p} :
                      tracers'[q] = IF q \in DOMAIN tracers THEN tracers[q] ELSE NoLink]_vars
    /\ [](\A q \in DOMAIN tracers : tracers[q] # NoLink => created[tracers[q]] = q)

\* a tracer at a path, one at an extension of it, and a bare record in between
C14_Witness ==
    \E p, q, r \in DOMAIN tracers :
        /\ HasLink(p) /\ HasLink(r) /\ tracers[q] = NoLink
        /\ Len(p) < Len(q) /\ Len(q) < Len(r)
        /\ p = SubSeq(r, 1, Len(p))
        /\ q = SubSeq(r, 1, Len(q))

\* a call holds a lock only in the step that follows its acquisition: the
\* shared lock while it looks the path up, the exclusive lock while it creates
LockDiscipline ==
    /\ \A h \in readers : tasks[h[1]][h[2]].pc = "find"
    /\ writer # None => /\ tasks[writer[1][1]][writer[1][2]].pc = "create"
                        /\ readers = {}
    /\ \A t \in Threads : \A i \in DOMAIN tasks[t] :
          /\ tasks[t][i].pc = "find" => <<t, i>> \in readers
          /\ tasks[t][i].pc = "create" => writer = Some(<<t, i>>)
          /\ tasks[t][i].pc = "wantwrite" => <<t, i>> \notin readers

\* C15: no call asks for the exclusive lock while it holds the shared one, and
\* under fair scheduling every write_values call, hence every write_value call
\* of it, returns.
C15_CallsReturn ==
    /\ []LockDiscipline
    /\ \A t \in Threads : (pc[t] = "run") ~> (pc[t] = "idle")

\* two threads both went through the exclusive lock and both have returned
C15_Witness ==
    \E t, u \in Threads :
        /\ t # u
        /\ pc[t] = "idle" /\ result[t] # None
        /\ pc[u] = "idle" /\ result[u] # None
        /\ \E i \in DOMAIN tasks[t] : tasks[t][i].made
        /\ \E j \in DOMAIN tasks[u] : tasks[u][j].made

\* C17: the level map holds one tracer for every severity level, bound to the
\* path ["log", level]; no step of log, write_values or write_value touches the
\* map, and the lookup of log succeeds for every level.
C17_LevelMap ==
    /\ [](/\ DOMAIN loggers = {"Error", "Warning", "Notice", "Info", "Debug"}
          /\ \A lvl \in DOMAIN loggers : loggers[lvl].path = <<"log", lvl>>
          /\ \A lvl \in LogLevel : ENABLED Log(lvl)
          /\ lastLog # None => lastLog[1].res = "ok")
    /\ [][(thrVars' # thrVars \/ regVars' # regVars \/ lastLog' # lastLog)
             => loggers' = loggers]_vars

\* the host logged at the last level while its tracer was observed, after
\* write_values had attached a tracer
C17_Witness ==
    /\ lastLog # None
    /\ lastLog[1].lvl = "Debug"
    /\ lastLog[1].logged
    /\ created # <<>>

\* C18: when several write_value calls of a multi-valued list fail, the error
\* write_values returns is the error of the failing value that comes last in
\* submission order, whatever the order in which the workers ran.
C18_LastFailingWins ==
    \A t \in Threads :
        LET failed == { i \in DOMAIN tasks[t] : tasks[t][i].res = "err" }
        IN  (Returned(t) /\ Len(tasks[t]) > 1 /\ Cardinality(failed) > 1) =>
                /\ result[t][1].res = "err"
                /\ result[t][1].from \in failed
                /\ \A j \in failed : j <= result[t][1].from

\* both writes of a two-valued list failed and the error of the second value,
\* the last one submitted, is the one write_values returned
C18_Witness ==
    \E t \in Threads :
        /\ Returned(t)
        /\ Len(list[t][1].values) = 2
        /\ tasks[t][1].res = "err"
        /\ tasks[t][2].res = "err"
        /\ result[t][1] = [res |-> "err", from |-> 2]

====
